---------------------------- MODULE Spec2Model ----------------------------
(***************************************************************************)
(* State-machine model of src/libstd/comm.rs: the shared Packet (cnt,      *)
(* steals, to_wake, channels), the two sender kinds (Chan over an SPSC     *)
(* queue, SharedChan over an MPSC queue), the Port (try_recv, recv_opt,    *)
(* drop) and select over a slice of ports.  Every access to shared memory  *)
(* (an atomic operation on cnt or channels, a queue push or pop, a read or *)
(* write of the to_wake slot) is one step of the process that performs it. *)
(***************************************************************************)
EXTENDS Integers, Sequences, FiniteSets, TLC

\* ------------------------------------------------------------- bounds
NPorts == 2          \* packets of the model; select is called on ports 1..np
MaxHandles == 2      \* sender handles per packet (the original and its clones)
MaxSends == 2        \* sends per Chan
SharedSends == 2     \* sends per SharedChan handle
YieldStart == 199    \* sends already made when YieldSpec starts
YieldSends == 201    \* sends per handle in YieldSpec
IntBits == 9         \* width of the model's int (cnt wraps modulo 2^IntBits)

P == 1..NPorts
I == 1..MaxHandles

IntMin == -(2 ^ (IntBits - 1))
DISCONNECTED == IntMin
Wrap(x) == ((x - IntMin) % (2 ^ IntBits)) + IntMin

VARIABLES
  np,        \* number of ports in use (the length of the slice given to select)
  kind,      \* kind[p]: "SPSC" (Chan::new) or "MPSC" (SharedChan::new)
  esc,       \* which variants the callers use (fixed by Init): send: the
             \* sender handles <<p, i>> that call send / send_deferred rather
             \* than try_send / try_send_deferred; recv: the receiver calls recv
             \* rather than recv_opt; defer: the sender handles that call
             \* send_deferred / try_send_deferred rather than send / try_send
  cnt,       \* Packet.cnt
  steals,    \* Packet.steals
  to_wake,   \* Packet.to_wake: "None", or a handle "Fresh" (of the blocking
             \* operation in progress) or "Stale" (of one that has returned)
  channels,  \* Packet.channels
  queue,     \* the queue's nodes, oldest first: [v |-> value, linked |-> BOOLEAN]
  portAlive, \* the Port has not been dropped
  spc,       \* spc[p][i]: position of sender handle i of packet p
  shandle,   \* the TaskHandle a sender took out of to_wake and has yet to wake
  nsent,     \* number of sends handle i of packet p has started
  limit,     \* limit[p]: sends each handle of packet p makes at most (fixed by Init)
  sentOK,    \* values whose try_send returned true
  sentFail,  \* values whose try_send returned false
  late,      \* values whose try_send started after the port was dropped
  sched,     \* sched[p][i]: how the current or last try of handle i of packet p
             \* has given up the processor: "none", "yield" (maybe_yield),
             \* "wake_resched" (wake(true)) or "wake_enqueue" (wake(false))
  rpc,       \* position of the receiving task
  rop,       \* the receiving task's operation: try_recv, recv_opt or select
  rp,        \* the port (index into ports) the receiver is working on
  ready,     \* select's ready_index
  surplus,   \* abort_selection's local `steals`
  rtake,     \* abort_selection's take_to_wake argument
  awake,     \* the blocked task of the current blocking operation has been woken
  rret,      \* what the receiver's last operation returned
  received,  \* received[p]: the values the port has returned, in order
  call,      \* history of the receiver's call in progress or just returned.
             \* For select: ready, disc: the ports that were ready /
             \* disconnected when it was called; quiet: no sender has taken a
             \* step since it was called; stepped: the ports whose sender
             \* has taken a step since it was called.  For recv_opt: after:
             \* it was called right after a select that returned its port.  For a blocking call: sent: a try has returned
             \* true while the receiver was parked
  errs       \* the assertions and fail!()s that have fired

pvars == <<np, kind, esc, limit, cnt, steals, to_wake, channels, queue, portAlive>>
svars == <<spc, shandle, nsent, sentOK, sentFail, late, sched>>
rvars == <<rpc, rop, rp, ready, surplus, rtake, awake, rret, received>>
vars == <<pvars, svars, rvars, call, errs>>

NoEsc == [send |-> {}, recv |-> FALSE, defer |-> {}]
NoRet == [op |-> "none", p |-> 0, val |-> <<>>]
NoCall ==
  [ready |-> {}, disc |-> {}, quiet |-> FALSE, sent |-> FALSE, stepped |-> {},
   after |-> FALSE]

\* The packet and endpoints of Chan::new() / SharedChan::new() on ports 1..n;
\* the other packets of the model are not created.  pre is the number of
\* values the first handle of each channel has sent, with no receive, when
\* the model starts (0: the channel is new).
InitPackets(n, kinds, single, shared, escs, pre) ==
  /\ np = n
  /\ kind \in kinds
  /\ esc \in escs
  /\ limit = [p \in P |-> IF kind[p] = "SPSC" THEN single ELSE shared]
  /\ cnt = [p \in P |-> IF p <= n THEN pre ELSE 0]
  /\ steals = [p \in P |-> 0]
  /\ to_wake = [p \in P |-> "None"]
  /\ channels = [p \in P |-> IF p <= n THEN 1 ELSE 0]
  /\ queue = [p \in P |-> IF p <= n
                            THEN [k \in 1..pre |-> [v |-> <<p, 1, k>>, linked |-> TRUE]]
                            ELSE <<>>]
  /\ portAlive = [p \in P |-> p <= n]
  /\ spc = [p \in P |-> [i \in I |-> IF p <= n /\ i = 1 THEN "idle" ELSE "unborn"]]
  /\ shandle = [p \in P |-> [i \in I |-> "None"]]
  /\ nsent = [p \in P |-> [i \in I |-> IF p <= n /\ i = 1 THEN pre ELSE 0]]
  /\ sentOK = {<<p, 1, k>> : p \in 1..n, k \in 1..pre}
  /\ sentFail = {}
  /\ late = {}
  /\ sched = [p \in P |-> [i \in I |-> "none"]]
  /\ rpc = "idle"
  /\ rop = "none"
  /\ rp = 1
  /\ ready = 0
  /\ surplus = 0
  /\ rtake = FALSE
  /\ awake = FALSE
  /\ rret = NoRet
  /\ received = [p \in P |-> <<>>]
  /\ call = NoCall
  /\ errs = {}

\* Mutant of SpscPush: the node is put at the front of the queue.
SpscPushFront(q, v) == <<[v |-> v, linked |-> TRUE]>> \o q
\* ------------------------------------------------------------- queues
\* spsc::Producer::push: the node is visible to pop as soon as push returns.
SpscPush(q, v) == Append(q, [v |-> v, linked |-> TRUE])
\* mpsc::Producer::push, first half: the node is swapped in as the new head
\* but the previous head does not point to it yet.
MpscPushSwap(q, v) == Append(q, [v |-> v, linked |-> FALSE])
\* mpsc::Producer::push, second half: the previous head is linked to the node.
MpscPushLink(q, v) ==
  [k \in 1..Len(q) |-> IF q[k].v = v THEN [q[k] EXCEPT !.linked = TRUE] ELSE q[k]]
\* pop of either queue: "Data" with the oldest node, "Empty", or (MPSC only)
\* "Inconsistent" when the oldest node is swapped in but not yet linked.
PopKind(q) ==
  IF q = <<>> THEN "Empty" ELSE IF q[1].linked THEN "Data" ELSE "Inconsistent"
\* The value a pop that finds data returns, and the queue it leaves.
QFront(q) == q[1].v
QRest(q) == Tail(q)
\* Producer::is_empty.
IsEmpty(q) == q = <<>>


\* ------------------------------------------------------------- packet
\* Mutant of IncrementAdd: the fetch_add leaves the count as it was.
IncrementSame(c) == c
\* Mutant of IncrementAdd: a send counts twice.
IncrementTwo(c) == Wrap(c + 2)
\* Packet::increment, the fetch_add: the count it leaves behind.
IncrementAdd(c) == Wrap(c + 1)
\* Mutant of DecrementSub: the receiver counts itself twice.
DecrementSubTwo(c, s) == Wrap(c - (2 + s))
\* Mutant of DecrementSub: the steals are not folded into the count.
DecrementSubOne(c, s) == Wrap(c - 1)
\* Packet::decrement, the fetch_sub of 1 + steals.
DecrementSub(c, s) == Wrap(c - (1 + s))
\* Mutant of DecrementBlocks: decrement always returns false.
DecrementBlocksNever(n, s) == FALSE
\* Mutant of DecrementBlocks: the task does not block on an empty channel.
DecrementBlocksLess(n, s) == n - s < 0
\* Mutant of DecrementBlocks: the task blocks with one value accounted for.
DecrementBlocksOne(n, s) == n - s <= 1
\* Packet::decrement's result for a previous count n that is not DISCONNECTED:
\* whether the task should block.
DecrementBlocks(n, s) == n - s <= 0
\* Mutant of AbortSurplus: abort_selection adds 1 and no lump.
AbortSurplusZero(c) == 0
\* Packet::abort_selection, the amount `steals` computed from the loaded count.
AbortSurplus(c) == IF c < 0 /\ c # DISCONNECTED THEN -c ELSE 0
\* Mutant of AbortAdd: abort_selection gives back one more than it took.
AbortAddTwo(c, s) == Wrap(c + s + 2)
\* Mutant of AbortAdd: abort_selection adds 1 only.
AbortAddOne(c, s) == Wrap(c + 1)
\* Mutant of AbortAdd: abort_selection leaves the count as it was.
AbortAddNothing(c, s) == c
\* Mutant of AbortAdd: the registration's decrement is not given back.
AbortAddSurplus(c, s) == Wrap(c + s)
\* Packet::abort_selection, the fetch_add of steals + 1.
AbortAdd(c, s) == Wrap(c + s + 1)
\* Mutants of CanRecv: a port whose count equals its steals is ready; a port
\* is ready only with two values accounted for; a disconnected port is not
\* ready.
CanRecvEmpty(c, s) == c = DISCONNECTED \/ c - s >= 0
CanRecvTwo(c, s) == c = DISCONNECTED \/ c - s > 1
CanRecvData(c, s) == c # DISCONNECTED /\ c - s > 0
\* Port::can_recv on a loaded count.
CanRecv(c, s) == c = DISCONNECTED \/ c - s > 0

Fail(label) == errs' = errs \cup {label}

\* Mutant of SendFails: send returns normally whatever try_send returned.
SendFailsNever(failing, b) == FALSE
\* Chan::send / send_deferred: `if !self.try_send(t) { fail!(..) }`; a caller of
\* try_send / try_send_deferred itself gets b back.
SendFails(failing, b) == failing /\ ~b
\* Port::recv: `match self.recv_opt() { Some(t) => t, None => fail!(..) }`; r is
\* what recv_opt returned (<<>> for None).
RecvFails(failing, r) == failing /\ r = <<>>

\* The value handle i of packet p sends as its k-th.
Val(p, i, k) == <<p, i, k>>
CurVal(p, i) == Val(p, i, nsent[p][i])

\* Mutant of ChanTryBranch: a previous count of DISCONNECTED is a success.
ChanTryIgnoreDisc(n) == IF n = -1 THEN "take" ELSE "true"
\* Mutant of ChanTryBranch: a previous count of -1 is a plain success.
ChanTryNoWake(n) ==
  IF n = DISCONNECTED THEN "store" ELSE IF n >= -2 THEN "true" ELSE "assert"
\* Mutant of ChanTryBranch: a previous count of -2 is a wakeup too.
ChanTryWakeAtMinusTwo(n) ==
  CASE n \in {-1, -2} -> "take"
    [] n = DISCONNECTED -> "store"
    [] OTHER -> IF n >= 0 THEN "true" ELSE "assert"
\* Mutant of ChanTryBranch: every previous count but DISCONNECTED is a wakeup.
ChanTryAlwaysWake(n) == IF n = DISCONNECTED THEN "store" ELSE "take"
\* Chan::try, the match on increment()'s result.
ChanTryBranch(n) ==
  CASE n = -1 -> "take"
    [] n = -2 -> "true"
    [] n = DISCONNECTED -> "store"
    [] OTHER -> IF n >= 0 THEN "true" ELSE "assert"
\* Mutant of SharedTryBranch: a previous count of DISCONNECTED is a success.
SharedTryIgnoreDisc(n) == IF n = -1 THEN "take" ELSE "true"
\* SharedChan::try, the match on increment()'s result.
SharedTryBranch(n) ==
  CASE n = DISCONNECTED -> "store"
    [] n = -1 -> "take"
    [] OTHER -> "true"

\* static RESCHED_FREQ
RESCHED_FREQ == 200
\* try_send / send call try(t, true), try_send_deferred / send_deferred call
\* try(t, false): the can_resched argument of handle i of packet p.
CanResched(p, i) == <<p, i>> \notin esc.defer
\* Mutant of MaybeYields: the yield does not look at can_resched.
MaybeYieldsAnyway(can_resched, n) == n > 0 /\ n % RESCHED_FREQ = 0
\* Chan::try / SharedChan::try, the arm `n`: whether imp::maybe_yield() is
\* called.
MaybeYields(can_resched, n) == can_resched /\ n > 0 /\ n % RESCHED_FREQ = 0
\* to_wake.take_unwrap().wake(can_resched): wake(true) may switch to the woken
\* task at once, wake(false) only enqueues it.
WakeEvent(can_resched) == IF can_resched THEN "wake_resched" ELSE "wake_enqueue"

TryBranch(p, n) ==
  IF kind[p] = "SPSC" THEN ChanTryBranch(n) ELSE SharedTryBranch(n)

\* try returns b for the value being sent.
SendReturns(p, i, b) ==
  /\ sentOK' = IF b THEN sentOK \cup {CurVal(p, i)} ELSE sentOK
  /\ sentFail' = IF b THEN sentFail ELSE sentFail \cup {CurVal(p, i)}
  /\ UNCHANGED late

\* A step of a sender of packet p: the select call in progress or just
\* returned is no longer quiet, and p is one of the ports whose sender has
\* taken a step since it was called.  A try that returns true while the
\* receiver is parked is recorded.
SenderStep(p) ==
  call' = [call EXCEPT !.quiet = FALSE,
                       !.sent = @ \/ (rpc = "wait" /\ sentOK' # sentOK),
                       !.stepped = IF rop = "select" \/ rret.op = "select"
                                   THEN @ \cup {p} ELSE @]

\* ------------------------------------------------------------- senders
\* Chan::try / SharedChan::try: this.queue.push(t).
SendPush(p, i) ==
  /\ spc[p][i] = "idle"
  /\ nsent[p][i] < limit[p]
  /\ nsent' = [nsent EXCEPT ![p][i] = @ + 1]
  /\ LET v == Val(p, i, nsent[p][i] + 1) IN
       IF kind[p] = "SPSC"
       THEN /\ queue' = [queue EXCEPT ![p] = SpscPush(@, v)]
            /\ spc' = [spc EXCEPT ![p][i] = "inc"]
       ELSE /\ queue' = [queue EXCEPT ![p] = MpscPushSwap(@, v)]
            /\ spc' = [spc EXCEPT ![p][i] = "link"]
  /\ UNCHANGED <<np, kind, esc, limit, cnt, steals, to_wake, channels, portAlive>>
  /\ late' = IF portAlive[p] THEN late ELSE late \cup {Val(p, i, nsent[p][i] + 1)}
  /\ sched' = [sched EXCEPT ![p][i] = "none"]
  /\ UNCHANGED <<shandle, sentOK, sentFail, rvars, errs>>
  /\ SenderStep(p)

\* The second half of the MPSC push.
SendLink(p, i) ==
  /\ spc[p][i] = "link"
  /\ queue' = [queue EXCEPT ![p] = MpscPushLink(@, CurVal(p, i))]
  /\ spc' = [spc EXCEPT ![p][i] = "inc"]
  /\ UNCHANGED <<np, kind, esc, limit, cnt, steals, to_wake, channels, portAlive>>
  /\ UNCHANGED <<shandle, nsent, sentOK, sentFail, late, sched, rvars, errs>>
  /\ SenderStep(p)

\* (*packet).increment(): the fetch_add, and the match on the previous count.
SendIncrement(p, i) ==
  /\ spc[p][i] = "inc"
  /\ cnt' = [cnt EXCEPT ![p] = IncrementAdd(@)]
  /\ LET b == TryBranch(p, cnt[p]) IN
       CASE b = "true" ->
              /\ spc' = [spc EXCEPT ![p][i] = "idle"]
              /\ sched' = [sched EXCEPT ![p][i] =
                             IF MaybeYields(CanResched(p, i), cnt[p])
                             THEN "yield" ELSE @]
              /\ SendReturns(p, i, TRUE)
              /\ UNCHANGED errs
         [] b = "assert" ->
              /\ spc' = [spc EXCEPT ![p][i] = "failed"]
              /\ Fail("Chan::try: n >= 0")
              /\ UNCHANGED <<sentOK, sentFail, late, sched>>
         [] OTHER ->
              /\ spc' = [spc EXCEPT ![p][i] = b]
              /\ UNCHANGED <<sentOK, sentFail, late, sched, errs>>
  /\ UNCHANGED <<np, kind, esc, limit, steals, to_wake, channels, queue, portAlive>>
  /\ UNCHANGED <<shandle, nsent, rvars>>
  /\ SenderStep(p)

\* Mutant of IncrementStore: the increment is undone by a subtraction.
IncrementUndo(c) == Wrap(c - 1)
\* Mutant of IncrementStore: the count is left as the fetch_add made it.
IncrementNoStore(c) == c
\* Packet::increment, previous count DISCONNECTED: the count its store leaves.
IncrementStore(c) == DISCONNECTED
\* Packet::increment, previous count DISCONNECTED: self.cnt.store(DISCONNECTED).
SendStore(p, i) ==
  /\ spc[p][i] = "store"
  /\ cnt' = [cnt EXCEPT ![p] = IncrementStore(@)]
  /\ spc' = [spc EXCEPT ![p][i] = "isempty"]
  /\ UNCHANGED <<np, kind, esc, limit, steals, to_wake, channels, queue, portAlive>>
  /\ UNCHANGED <<shandle, nsent, sentOK, sentFail, late, sched, rvars, errs>>
  /\ SenderStep(p)

\* Mutant of DisconnectedResult: a try that finds DISCONNECTED returns false.
DisconnectedFalse(q) == FALSE
\* What try returns when increment returned DISCONNECTED.
DisconnectedResult(q) == IsEmpty(q)

\* DISCONNECTED => this.queue.is_empty()
SendIsEmpty(p, i) ==
  /\ spc[p][i] = "isempty"
  /\ LET b == DisconnectedResult(queue[p]) IN
       /\ SendReturns(p, i, b)
       /\ IF SendFails(<<p, i>> \in esc.send, b)
          THEN /\ spc' = [spc EXCEPT ![p][i] = "failed"]
               /\ Fail("sending on a closed channel")
          ELSE /\ spc' = [spc EXCEPT ![p][i] = "idle"]
               /\ UNCHANGED errs
  /\ UNCHANGED <<pvars, shandle, nsent, sched, rvars>>
  /\ SenderStep(p)

\* to_wake.take_unwrap(), by a sender whose increment returned -1 ("take") or
\* by the last sender's drop whose swap returned -1 ("dtake").
SendTake(p, i) ==
  /\ spc[p][i] \in {"take", "dtake"}
  /\ IF to_wake[p] = "None"
     THEN /\ spc' = [spc EXCEPT ![p][i] = "failed"]
          /\ Fail("take_unwrap on None")
          /\ UNCHANGED <<to_wake, shandle>>
     ELSE /\ spc' = [spc EXCEPT ![p][i] = IF @ = "take" THEN "wake" ELSE "dwake"]
          /\ shandle' = [shandle EXCEPT ![p][i] = to_wake[p]]
          /\ to_wake' = [to_wake EXCEPT ![p] = "None"]
          /\ UNCHANGED errs
  /\ UNCHANGED <<np, kind, esc, limit, cnt, steals, channels, queue, portAlive>>
  /\ UNCHANGED <<nsent, sentOK, sentFail, late, sched, rvars>>
  /\ SenderStep(p)

\* Mutant of Wake: no handle wakes the blocked task.
WakeNobody(h) == awake' = awake
\* TaskHandle::wake: a handle of the blocking operation in progress wakes the
\* blocked task; a handle of an operation that has returned wakes nobody.
Wake(h) == awake' = (awake \/ h = "Fresh")

\* .wake(can_resched); true
SendWake(p, i) ==
  /\ spc[p][i] = "wake"
  /\ Wake(shandle[p][i])
  /\ shandle' = [shandle EXCEPT ![p][i] = "None"]
  /\ spc' = [spc EXCEPT ![p][i] = "idle"]
  /\ sched' = [sched EXCEPT ![p][i] = WakeEvent(CanResched(p, i))]
  /\ SendReturns(p, i, TRUE)
  /\ UNCHANGED <<pvars, nsent, errs>>
  /\ UNCHANGED <<rpc, rop, rp, ready, surplus, rtake, rret, received>>
  /\ SenderStep(p)

\* SharedChan::clone: channels.fetch_add(1), then the new handle j exists.
Clone(p, i, j) ==
  /\ kind[p] = "MPSC"
  /\ spc[p][i] = "idle"
  /\ spc[p][j] = "unborn"
  /\ channels' = [channels EXCEPT ![p] = @ + 1]
  /\ spc' = [spc EXCEPT ![p][j] = "idle"]
  /\ UNCHANGED <<np, kind, esc, limit, cnt, steals, to_wake, queue, portAlive>>
  /\ UNCHANGED <<shandle, nsent, sentOK, sentFail, late, sched, rvars, errs>>
  /\ SenderStep(p)

\* Mutant of LastChannel: every drop takes itself for the last one.
LastChannelAny(n) == n >= 1
\* Mutant of LastChannel: the drop that leaves one handle takes itself for the
\* last one.
LastChannelTwo(n) == n = 1 \/ n = 2
\* Packet::drop_chan: the previous value of channels that makes the caller
\* the last sender.
LastChannel(n) == n = 1

\* Drop for Chan / SharedChan, Packet::drop_chan: channels.fetch_sub(1).
DropChan(p, i) ==
  /\ spc[p][i] = "idle"
  /\ channels' = [channels EXCEPT ![p] = @ - 1]
  /\ IF LastChannel(channels[p])
     THEN spc' = [spc EXCEPT ![p][i] = "dswap"] /\ UNCHANGED errs
     ELSE IF channels[p] > 1
     THEN spc' = [spc EXCEPT ![p][i] = "dead"] /\ UNCHANGED errs
     ELSE spc' = [spc EXCEPT ![p][i] = "failed"] /\ Fail("bad number of channels left")
  /\ UNCHANGED <<np, kind, esc, limit, cnt, steals, to_wake, queue, portAlive>>
  /\ UNCHANGED <<shandle, nsent, sentOK, sentFail, late, sched, rvars>>
  /\ SenderStep(p)

\* Mutant of DropBranch: the last drop wakes nobody.
DropBranchNoWake(n) == IF n = DISCONNECTED \/ n >= -1 THEN "dead" ELSE "assert"
\* Packet::drop_chan, the match on what cnt.swap(DISCONNECTED) returned.
DropBranch(n) ==
  CASE n = -1 -> "dtake"
    [] n = DISCONNECTED -> "dead"
    [] OTHER -> IF n >= 0 THEN "dead" ELSE "assert"

\* Packet::drop_chan on the last handle: self.cnt.swap(DISCONNECTED).
DropSwap(p, i) ==
  /\ spc[p][i] = "dswap"
  /\ cnt' = [cnt EXCEPT ![p] = DISCONNECTED]
  /\ LET b == DropBranch(cnt[p]) IN
       IF b = "assert"
       THEN spc' = [spc EXCEPT ![p][i] = "failed"] /\ Fail("drop_chan: n >= 0")
       ELSE spc' = [spc EXCEPT ![p][i] = b] /\ UNCHANGED errs
  /\ UNCHANGED <<np, kind, esc, limit, steals, to_wake, channels, queue, portAlive>>
  /\ UNCHANGED <<shandle, nsent, sentOK, sentFail, late, sched, rvars>>
  /\ SenderStep(p)

\* Packet::drop_chan: .wake(false)
DropWake(p, i) ==
  /\ spc[p][i] = "dwake"
  /\ Wake(shandle[p][i])
  /\ shandle' = [shandle EXCEPT ![p][i] = "None"]
  /\ spc' = [spc EXCEPT ![p][i] = "dead"]
  /\ UNCHANGED <<pvars, nsent, sentOK, sentFail, late, sched, errs>>
  /\ UNCHANGED <<rpc, rop, rp, ready, surplus, rtake, rret, received>>

  /\ SenderStep(p)

\* ------------------------------------------------------------- receiver
Ret(op, p, val) == [op |-> op, p |-> p, val |-> val]

\* The receiver's operation returns r.
RReturn(r) ==
  /\ rret' = r
  /\ rpc' = "idle"
  /\ rop' = "none"

RFail(label) ==
  /\ rpc' = "failed"
  /\ Fail(label)

\* BlockingContext::one / many returns: the task runs again, so the handles it
\* created are handles of a task that is awake.
Stale(h) == IF h = "Fresh" THEN "Stale" ELSE h
StaleSlots(tw) == [q \in P |-> Stale(tw[q])]
StaleTaken == shandle' = [q \in P |-> [i \in I |-> Stale(shandle[q][i])]]

\* A pop that returned Some(t): Port::try_recv's steals += 1.
PopData(p) ==
  /\ queue' = [queue EXCEPT ![p] = QRest(@)]
  /\ received' = [received EXCEPT ![p] = Append(@, QFront(queue[p]))]

\* Mutant of StealsAdd: a steal counts twice.
StealsAddTwo(s) == s + 2
\* Mutant of StealsAdd: the steal is not counted.
StealsSame(s) == s
\* Port::try_recv, `steals += 1` after a pop that returned a value.
StealsAdd(s) == s + 1
\* Port::try_recv.
TryRecv(p) ==
  /\ rpc = "idle"
  /\ p <= np
  /\ portAlive[p]
  /\ IF PopKind(queue[p]) = "Data"
     THEN /\ PopData(p)
          /\ steals' = [steals EXCEPT ![p] = StealsAdd(@)]
          /\ RReturn(Ret("try_recv", p, <<QFront(queue[p])>>))
     ELSE /\ RReturn(Ret("try_recv", p, <<>>))
          /\ UNCHANGED <<queue, received, steals>>
  /\ UNCHANGED <<np, kind, esc, limit, cnt, to_wake, channels, portAlive>>
  /\ UNCHANGED <<svars, rp, ready, surplus, rtake, awake, errs>>
  /\ call' = NoCall

\* Port::recv_opt, the optimistic self.try_recv().
RecvOpt(p) ==
  /\ rpc = "idle"
  /\ p <= np
  /\ portAlive[p]
  /\ IF PopKind(queue[p]) = "Data"
     THEN /\ PopData(p)
          /\ steals' = [steals EXCEPT ![p] = StealsAdd(@)]
          /\ RReturn(Ret("recv_opt", p, <<QFront(queue[p])>>))
          /\ UNCHANGED rp
     ELSE /\ rpc' = "install"
          /\ rop' = "recv_opt"
          /\ rp' = p
          /\ rret' = NoRet
          /\ UNCHANGED <<queue, received, steals>>
  /\ UNCHANGED <<np, kind, esc, limit, cnt, to_wake, channels, portAlive>>
  /\ UNCHANGED <<svars, ready, surplus, rtake, awake, errs>>
  /\ call' = [NoCall EXCEPT !.after = (rret.op = "select" /\ rret.p = p)]

\* BlockingContext::block: assert!(slot.is_none()); *slot = Some(handle).
RInstall ==
  /\ rpc = "install"
  /\ IF to_wake[rp] # "None"
     THEN RFail("block: slot.is_none()") /\ UNCHANGED to_wake
     ELSE /\ to_wake' = [to_wake EXCEPT ![rp] = "Fresh"]
          /\ rpc' = "dec"
          /\ UNCHANGED errs
  /\ UNCHANGED <<np, kind, esc, limit, cnt, steals, channels, queue, portAlive>>
  /\ UNCHANGED <<svars, rop, rp, ready, surplus, rtake, awake, rret, received>>
  /\ UNCHANGED call

\* The decision of block is true: recv_opt's task blocks; select's closure
\* returns true and `many` goes on to the next port, or blocks after the last.
Committed ==
  IF rop = "select" /\ rp < np
  THEN rpc' = "install" /\ rp' = rp + 1
  ELSE rpc' = "wait" /\ UNCHANGED rp

\* Mutant of DecrementSteals: the steal count survives the decrement.
DecrementKeepsSteals(s) == s
\* Packet::decrement, `self.steals = 0`.
DecrementSteals(s) == 0
\* Packet::decrement: steals is folded into the fetch_sub and reset.
RDecrement ==
  /\ rpc = "dec"
  /\ steals' = [steals EXCEPT ![rp] = DecrementSteals(@)]
  /\ cnt' = [cnt EXCEPT ![rp] = DecrementSub(@, steals[rp])]
  /\ IF cnt[rp] = DISCONNECTED
     THEN rpc' = "dec_store" /\ UNCHANGED <<rp, errs>>
     ELSE IF cnt[rp] < 0
     THEN RFail("decrement: n >= 0") /\ UNCHANGED rp
     ELSE IF DecrementBlocks(cnt[rp], steals[rp])
     THEN Committed /\ UNCHANGED errs
     ELSE rpc' = "unreg" /\ UNCHANGED <<rp, errs>>
  /\ UNCHANGED <<np, kind, esc, limit, to_wake, channels, queue, portAlive>>
  /\ UNCHANGED <<svars, rop, ready, surplus, rtake, awake, rret, received>>
  /\ UNCHANGED call

\* Packet::decrement, previous count DISCONNECTED: store it back, return false.
RDecStore ==
  /\ rpc = "dec_store"
  /\ cnt' = [cnt EXCEPT ![rp] = DISCONNECTED]
  /\ rpc' = "unreg"
  /\ UNCHANGED <<np, kind, esc, limit, steals, to_wake, channels, queue, portAlive>>
  /\ UNCHANGED <<svars, rop, rp, ready, surplus, rtake, awake, rret, received, errs>>
  /\ UNCHANGED call

\* BlockingContext::block, the decision was false: the slot is reset.  The
\* green context does slot.take_unwrap(), which fails on an empty slot; the
\* native context stores None.  In recv_opt `one` then returns without
\* blocking; in select the closure goes on to abort_selection(false).
RUnregister ==
  /\ rpc = "unreg"
  /\ \E green \in BOOLEAN :
       IF green /\ to_wake[rp] = "None"
       THEN /\ RFail("take_unwrap on None")
            /\ UNCHANGED <<to_wake, shandle, awake, rtake>>
       ELSE /\ IF rop = "recv_opt"
               THEN /\ to_wake' = StaleSlots([to_wake EXCEPT ![rp] = "None"])
                    /\ StaleTaken
                    /\ awake' = FALSE
                    /\ rpc' = "repop"
                    /\ UNCHANGED rtake
               ELSE /\ to_wake' = [to_wake EXCEPT ![rp] = "None"]
                    /\ rtake' = FALSE
                    /\ rpc' = "aload"
                    /\ UNCHANGED <<shandle, awake>>
            /\ UNCHANGED errs
  /\ UNCHANGED <<np, kind, esc, limit, cnt, steals, channels, queue, portAlive>>
  /\ UNCHANGED <<spc, nsent, sentOK, sentFail, late, sched>>
  /\ UNCHANGED <<rop, rp, ready, surplus, rret, received>>
  /\ UNCHANGED call

\* select after `many`: the loop over ports.slice_to(ready_index), in reverse,
\* from the port before `from`; with none left, assert!(ready_index <
\* ports.len()) and return ready_index.  rdy is ready_index as it stands.
TearDownFrom(from, rdy) ==
  /\ ready' = rdy
  /\ IF from > 1
     THEN /\ rp' = from - 1
          /\ rtake' = TRUE
          /\ rpc' = "aload"
          /\ UNCHANGED <<rop, rret, errs>>
     ELSE /\ UNCHANGED <<rp, rtake>>
          /\ IF rdy <= np
             THEN RReturn(Ret("select", rdy, <<>>)) /\ UNCHANGED errs
             ELSE RFail("select: ready_index < ports.len()") /\ UNCHANGED <<rop, rret>>

\* The blocked task is woken: `one` / `many` returns.
RWait ==
  /\ rpc = "wait"
  /\ awake
  /\ awake' = FALSE
  /\ to_wake' = StaleSlots(to_wake)
  /\ StaleTaken
  /\ IF rop = "recv_opt"
     THEN rpc' = "repop" /\ UNCHANGED <<rop, rp, ready, rtake, rret, errs>>
     ELSE TearDownFrom(np + 1, np + 1)
  /\ UNCHANGED <<np, kind, esc, limit, cnt, steals, channels, queue, portAlive>>
  /\ UNCHANGED <<spc, nsent, sentOK, sentFail, late, sched, surplus, received>>
  /\ UNCHANGED call

\* Mutant of RepopKind: a disconnected port is not popped again.
RepopKindSkip(p) == IF cnt[p] = DISCONNECTED THEN "Empty" ELSE PopKind(queue[p])
\* Port::recv_opt after the blocking context: what queue.pop() finds on port p.
RepopKind(p) == PopKind(queue[p])

\* Port::recv_opt after the blocking context: queue.pop().
RRepop ==
  /\ rpc = "repop"
  /\ LET k == RepopKind(rp) IN
       CASE k = "Data" ->
              /\ PopData(rp)
              /\ RReturn(Ret("recv_opt", rp, <<QFront(queue[rp])>>))
         [] k = "Inconsistent" ->
              /\ rpc' = "spin"
              /\ UNCHANGED <<queue, received, rop, rret>>
         [] OTHER ->
              /\ rpc' = "check"
              /\ UNCHANGED <<queue, received, rop, rret>>
  /\ UNCHANGED <<np, kind, esc, limit, cnt, steals, to_wake, channels, portAlive>>
  /\ UNCHANGED <<svars, rp, ready, surplus, rtake, awake, errs>>
  /\ UNCHANGED call

\* Port::recv_opt, mpsc::Inconsistent: yield_now(), then pop again, until the
\* pop returns data.
RSpin ==
  /\ rpc = "spin"
  /\ PopKind(queue[rp]) # "Inconsistent"
  /\ IF PopKind(queue[rp]) = "Data"
     THEN /\ PopData(rp)
          /\ RReturn(Ret("recv_opt", rp, <<QFront(queue[rp])>>))
          /\ UNCHANGED errs
     ELSE /\ RFail("inconsistent => empty")
          /\ UNCHANGED <<queue, received, rop, rret>>
  /\ UNCHANGED <<np, kind, esc, limit, cnt, steals, to_wake, channels, portAlive>>
  /\ UNCHANGED <<svars, rp, ready, surplus, rtake, awake>>
  /\ UNCHANGED call

\* Port::recv_opt, no data: fail unless cnt.load() is DISCONNECTED.
RCheck ==
  /\ rpc = "check"
  /\ IF cnt[rp] # DISCONNECTED
     THEN RFail("bug: woke up too soon") /\ UNCHANGED <<rop, rret>>
     ELSE IF RecvFails(esc.recv, <<>>)
          THEN /\ RFail("receiving on a closed channel")
               /\ rret' = Ret("recv_opt", rp, <<>>)
               /\ rop' = "none"
          ELSE RReturn(Ret("recv_opt", rp, <<>>)) /\ UNCHANGED errs
  /\ UNCHANGED <<pvars, svars, rp, ready, surplus, rtake, awake, received>>
  /\ UNCHANGED call

\* Drop for Port: cnt.store(DISCONNECTED).
PortDrop(p) ==
  /\ rpc = "idle"
  /\ p <= np
  /\ portAlive[p]
  /\ cnt' = [cnt EXCEPT ![p] = DISCONNECTED]
  /\ portAlive' = [portAlive EXCEPT ![p] = FALSE]
  /\ UNCHANGED <<np, kind, esc, limit, steals, to_wake, channels, queue>>
  /\ UNCHANGED <<svars, rvars, errs>>

  /\ call' = NoCall

\* ------------------------------------------------------------- select
\* select: assert!(ports.len() > 0), then the scan with can_recv, port 1 first.
\* With no port ready, ready_index = ports.len() and `many` starts at port 1.
ScanPort(p) ==
  IF CanRecv(cnt[p], steals[p])
  THEN RReturn(Ret("select", p, <<>>)) /\ UNCHANGED <<rp, ready>>
  ELSE /\ rop' = "select"
       /\ rret' = NoRet
       /\ IF p < np
          THEN rpc' = "scan" /\ rp' = p + 1 /\ UNCHANGED ready
          ELSE rpc' = "install" /\ rp' = 1 /\ ready' = np + 1

RSelect ==
  /\ rpc = "idle"
  /\ \A p \in 1..np : portAlive[p]
  /\ ScanPort(1)
  /\ UNCHANGED <<pvars, svars, surplus, rtake, awake, received, errs>>
  /\ call' = [ready |-> {p \in 1..np : cnt[p] = DISCONNECTED \/ cnt[p] - steals[p] > 0},
              disc |-> {p \in 1..np : cnt[p] = DISCONNECTED},
              quiet |-> \A p \in P, i \in I :
                          spc[p][i] \in {"idle", "dead", "unborn", "failed"},
              sent |-> FALSE,
              stepped |-> {},
              after |-> FALSE]

RScan ==
  /\ rpc = "scan"
  /\ ScanPort(rp)
  /\ UNCHANGED <<pvars, svars, surplus, rtake, awake, received, errs>>
  /\ UNCHANGED call

\* abort_selection returns `result` for port rp.  Called with take_to_wake
\* false it is the end of select's closure: ready_index = i, the closure
\* returns false and `many` returns.  Called with true it is one round of the
\* reverse loop: ready_index = i if it returned true.
AbortReturns(result, tw) ==
  /\ TearDownFrom(rp, IF rtake /\ ~result THEN ready ELSE rp)
  /\ to_wake' = IF rtake THEN tw ELSE StaleSlots(tw)
  /\ shandle' = IF rtake THEN shandle
                ELSE [q \in P |-> [i \in I |-> Stale(shandle[q][i])]]
  /\ awake' = (rtake /\ awake)

\* abort_selection: the load of cnt that sizes `steals`.
RAbortLoad ==
  /\ rpc = "aload"
  /\ surplus' = AbortSurplus(cnt[rp])
  /\ rpc' = "aadd"
  /\ UNCHANGED <<pvars, svars, rop, rp, ready, rtake, awake, rret, received, errs>>
  /\ UNCHANGED call

\* abort_selection: prev = cnt.fetch_add(steals + 1), and what follows without
\* touching shared memory again.
RAbortAdd ==
  /\ rpc = "aadd"
  /\ cnt' = [cnt EXCEPT ![rp] = AbortAdd(@, surplus)]
  /\ LET prev == cnt[rp] IN
       IF prev = DISCONNECTED
       THEN /\ rpc' = "astore"
            /\ UNCHANGED <<steals, to_wake, shandle, awake, rop, rp, ready, rtake, rret, errs>>
       ELSE IF prev + surplus + 1 < 0
       THEN /\ RFail("abort_selection: cur >= 0")
            /\ UNCHANGED <<steals, to_wake, shandle, awake, rop, rp, ready, rtake, rret>>
       ELSE IF prev <= -1
       THEN /\ rpc' = "aslot"
            /\ UNCHANGED <<steals, to_wake, shandle, awake, rop, rp, ready, rtake, rret, errs>>
       ELSE IF steals[rp] # 0
       THEN /\ RFail("abort_selection: steals == 0")
            /\ UNCHANGED <<steals, to_wake, shandle, awake, rop, rp, ready, rtake, rret>>
       ELSE /\ steals' = [steals EXCEPT ![rp] = surplus]
            /\ AbortReturns(TRUE, to_wake)
  /\ UNCHANGED <<np, kind, esc, limit, channels, queue, portAlive>>
  /\ UNCHANGED <<spc, nsent, sentOK, sentFail, late, sched, surplus, received>>
  /\ UNCHANGED call

\* abort_selection, previous count DISCONNECTED: store it back, return true.
RAbortStore ==
  /\ rpc = "astore"
  /\ cnt' = [cnt EXCEPT ![rp] = DISCONNECTED]
  /\ AbortReturns(TRUE, to_wake)
  /\ UNCHANGED <<np, kind, esc, limit, steals, channels, queue, portAlive>>
  /\ UNCHANGED <<spc, nsent, sentOK, sentFail, late, sched, surplus, received>>
  /\ UNCHANGED call

\* abort_selection, previous count <= -1: to_wake.take_unwrap().trash() or
\* assert!(to_wake.is_none()); then assert_eq!(steals, 0), steals = steals,
\* return false.
RAbortSlot ==
  /\ rpc = "aslot"
  /\ IF rtake /\ to_wake[rp] = "None"
     THEN /\ RFail("take_unwrap on None")
          /\ UNCHANGED <<steals, to_wake, shandle, awake, rop, rp, ready, rtake, rret>>
     ELSE IF ~rtake /\ to_wake[rp] # "None"
     THEN /\ RFail("abort_selection: to_wake.is_none()")
          /\ UNCHANGED <<steals, to_wake, shandle, awake, rop, rp, ready, rtake, rret>>
     ELSE IF steals[rp] # 0
     THEN /\ RFail("abort_selection: steals == 0")
          /\ UNCHANGED <<steals, to_wake, shandle, awake, rop, rp, ready, rtake, rret>>
     ELSE /\ steals' = [steals EXCEPT ![rp] = surplus]
          /\ AbortReturns(FALSE, [to_wake EXCEPT ![rp] = "None"])
  /\ UNCHANGED <<np, kind, esc, limit, cnt, channels, queue, portAlive>>
  /\ UNCHANGED <<spc, nsent, sentOK, sentFail, late, sched, surplus, received>>
  /\ UNCHANGED call

\* ------------------------------------------------------------- specifications
\* The steps of a sender of either kind.
Sender(p, i) ==
  \/ SendPush(p, i)
  \/ SendLink(p, i)
  \/ SendIncrement(p, i)
  \/ SendStore(p, i)
  \/ SendIsEmpty(p, i)
  \/ SendTake(p, i)
  \/ SendWake(p, i)
  \/ DropChan(p, i)
  \/ DropSwap(p, i)
  \/ DropWake(p, i)

\* The steps of a Chan whose port is never dropped: its increment never
\* returns DISCONNECTED, and its push is one step.
ChanSender(p, i) ==
  \/ SendPush(p, i)
  \/ SendIncrement(p, i)
  \/ SendTake(p, i)
  \/ SendWake(p, i)
  \/ DropChan(p, i)
  \/ DropSwap(p, i)
  \/ DropWake(p, i)

Blocking ==
  \/ RInstall
  \/ RDecrement
  \/ RDecStore
  \/ RUnregister
  \/ RWait

SelectSteps ==
  \/ RSelect
  \/ RScan
  \/ RAbortLoad
  \/ RAbortAdd
  \/ RAbortStore
  \/ RAbortSlot

\* One channel of either kind, its senders (the SharedChan may be cloned), and
\* a receiver that calls try_recv and recv_opt and may drop the port.
ChanInit ==
  InitPackets(1, {k \in [P -> {"SPSC", "MPSC"}] : \A p \in P : p > 1 => k[p] = "SPSC"},
              MaxSends, SharedSends, {NoEsc}, 0)
ChanNext ==
  \/ \E p \in P, i \in I : Sender(p, i)
  \/ \E p \in P, i \in I, j \in I : Clone(p, i, j)
  \/ \E p \in P : TryRecv(p) \/ RecvOpt(p) \/ PortDrop(p)
  \/ Blocking
  \/ RRepop
  \/ RSpin
  \/ RCheck
ChanSpec == ChanInit /\ [][ChanNext]_vars

\* One channel as in ChanInit, with every choice of the callers that use the
\* failing variants: each subset of the sender handles calls send /
\* send_deferred, and the receiver calls recv or recv_opt.  A task that has
\* failed takes no further step.
Escalations == {[send |-> s, recv |-> r, defer |-> {}] : s \in SUBSET ({1} \X I), r \in BOOLEAN}
EscInit ==
  InitPackets(1, {k \in [P -> {"SPSC", "MPSC"}] : \A p \in P : p > 1 => k[p] = "SPSC"},
              MaxSends, SharedSends, Escalations, 0)
EscSpec == EscInit /\ [][ChanNext]_vars

\* A Chan/Port pair per packet, for a receiver that calls select on all the
\* ports.
SelInit == InitPackets(NPorts, {[p \in P |-> "SPSC"]}, MaxSends, 0, {NoEsc}, 0)

\* Either configuration, with every operation of the senders and the receiver.
Init == ChanInit \/ SelInit
Next ==
  \/ \E p \in P, i \in I : Sender(p, i)
  \/ \E p \in P, i \in I, j \in I : Clone(p, i, j)
  \/ \E p \in P : TryRecv(p) \/ RecvOpt(p) \/ PortDrop(p)
  \/ Blocking
  \/ RRepop
  \/ RSpin
  \/ RCheck
  \/ SelectSteps
Spec == Init /\ [][Next]_vars

\* The steps of a sender whose port is never dropped.
LiveSender(p, i) == ChanSender(p, i) \/ SendLink(p, i)
\* The steps that finish a send or a drop that has started.  Tasks are
\* scheduled fairly, so a sender in the middle of try or of drop goes on; no
\* sender has to start a send or to drop its handle.
SendProgress(p, i) ==
  \/ SendLink(p, i)
  \/ SendIncrement(p, i)
  \/ SendTake(p, i)
  \/ SendWake(p, i)
  \/ DropSwap(p, i)
  \/ DropWake(p, i)

\* One channel of either kind whose receiver is never dropped and calls
\* recv_opt again and again.
ChanReceiver ==
  \/ \E p \in P : RecvOpt(p)
  \/ Blocking
  \/ RRepop
  \/ RSpin
  \/ RCheck
FairChanNext ==
  \/ \E p \in P, i \in I : LiveSender(p, i)
  \/ \E p \in P, i \in I, j \in I : Clone(p, i, j)
  \/ ChanReceiver
FairChan ==
  /\ ChanInit
  /\ [][FairChanNext]_vars
  /\ WF_vars(ChanReceiver)
  /\ \A p \in P, i \in I : WF_vars(SendProgress(p, i))

\* A Chan/Port pair per packet and a receiver that calls try_recv, recv_opt
\* and select; a call of the receiver that has started goes on, and no call
\* has to start.
SelReceiver ==
  \/ Blocking
  \/ RRepop
  \/ RCheck
  \/ RScan
  \/ RAbortLoad
  \/ RAbortAdd
  \/ RAbortStore
  \/ RAbortSlot
FairSelNext ==
  \/ \E p \in P, i \in I : ChanSender(p, i)
  \/ \E p \in P : TryRecv(p) \/ RecvOpt(p)
  \/ RSelect
  \/ SelReceiver
FairSel ==
  /\ SelInit
  /\ [][FairSelNext]_vars
  /\ WF_vars(SelReceiver)
  /\ \A p \in P, i \in I : WF_vars(SendProgress(p, i))


\* ------------------------------------------------------------- properties
Range(f) == {f[k] : k \in DOMAIN f}

\* Sender handle i of packet p exists and has not started its drop.
ProducerAlive(p, i) ==
  spc[p][i] \in {"idle", "link", "inc", "store", "isempty", "take", "wake"}
\* The receiver's last operation was a recv_opt on port p that returned None.
RecvNone(p) == rret = Ret("recv_opt", p, <<>>)
\* Every value pushed on packet p so far.
Pushed(p) == UNION {{Val(p, i, k) : k \in 1..nsent[p][i]} : i \in I}

\* C3: whenever recv_opt has returned None on a port, no sender handle of its
\* packet is alive any more: every handle that was created has started its
\* drop, and channels is 0.
C3_NoneOnlyAfterProducersGone ==
  \A p \in P : RecvNone(p) =>
    /\ \A i \in I : ~ProducerAlive(p, i)
    /\ channels[p] = 0
\* recv_opt has returned None on a SharedChan's port after the original
\* handle and its clone were dropped.
C3_Witness ==
  RecvNone(1) /\ kind[1] = "MPSC" /\ spc[1][1] = "dead" /\ spc[1][2] \in {"dead", "dwake"}

\* C4: recv_opt returns None only when cnt is DISCONNECTED and the queue is
\* empty, and by then the port has returned every value that was pushed: the
\* values still buffered when the last sender was dropped are returned before
\* the None (for a Chan, received is exactly the sequence of the sends).
C4_DrainThenNone ==
  \A p \in P : RecvNone(p) =>
    /\ cnt[p] = DISCONNECTED
    /\ queue[p] = <<>>
    /\ Range(received[p]) = Pushed(p)
    /\ Len(received[p]) = Cardinality(Pushed(p))
    /\ (kind[p] = "SPSC" => received[p] = [k \in 1..nsent[p][1] |-> Val(p, 1, k)])
\* recv_opt has returned None on a Chan's port after it returned both values
\* the Chan sent.
C4_Witness ==
  RecvNone(1) /\ kind[1] = "SPSC" /\ received[1] = <<Val(1, 1, 1), Val(1, 1, 2)>>

\* C5: per-producer FIFO: a port returns the k-th value of a sender handle
\* only after it has returned that handle's (k-1)-th value, and returns no
\* value twice.
C5_PerProducerFifo ==
  \A p \in P : \A m \in 1..Len(received[p]) :
    LET v == received[p][m] IN
      /\ v[3] > 1 => \E n \in 1..(m - 1) : received[p][n] = Val(v[1], v[2], v[3] - 1)
      /\ \A n \in 1..(m - 1) : received[p][n] # v
\* The port of a SharedChan has returned all the values of two handles, the
\* clone's first value before the original's second.
C5_Witness ==
  /\ kind[1] = "MPSC"
  /\ Len(received[1]) = 2 * SharedSends
  /\ \E m, n \in 1..Len(received[1]) :
       m < n /\ received[1][m] = Val(1, 2, 1) /\ received[1][n] = Val(1, 1, 2)

\* The parties that are about to call take_unwrap on the to_wake slot of
\* packet p: a sender whose increment returned -1, the last sender's drop
\* whose swap returned -1, the receiver after a false decision in block, and
\* the receiver in abort_selection(true) after a previous count <= -1.
Takers(p) ==
  {<<"sender", i>> : i \in {j \in I : spc[p][j] \in {"take", "dtake"}}}
  \cup (IF rp = p /\ (rpc = "unreg" \/ (rpc = "aslot" /\ rtake))
        THEN {<<"receiver", 0>>} ELSE {})

\* C6: no double wake: at any time at most one party is entitled to take the
\* handle out of a packet's to_wake slot, the slot is occupied while a party
\* is entitled to it, and take_unwrap is never called on an empty slot.
C6_NoDoubleWake ==
  /\ \A p \in P : Cardinality(Takers(p)) <= 1
  /\ \A p \in P : Takers(p) # {} => to_wake[p] # "None"
  /\ "take_unwrap on None" \notin errs
\* During a select on two ports a sender has taken the handle of port 1 after
\* its increment returned -1, while the receiver resets the slot of port 2
\* itself after a false decision.
C6_Witness ==
  /\ rop = "select" /\ rpc = "unreg" /\ rp = 2
  /\ spc[1][1] = "wake" /\ shandle[1][1] = "Fresh"

\* The receiver's last operation was select and it returned.
SelectReturned == rret.op = "select"
\* Port p holds a value that was pushed completely and not received / has
\* pending activity.
HoldsData(p) == \E k \in DOMAIN queue[p] : queue[p][k].linked
Active(p) == HoldsData(p) \/ cnt[p] = DISCONNECTED

C8_SmallestIndex ==
  SelectReturned =>
    /\ \A j \in call.ready : rret.p <= j
    /\ call.quiet => /\ Active(rret.p)
                     /\ \A j \in 1..(rret.p - 1) : ~Active(j)
\* select was called with every port ready and no sender running, and has
\* returned the first port.
C8_Witness ==
  /\ SelectReturned /\ rret.p = 1 /\ np = NPorts
  /\ call.ready = P /\ call.quiet

\* C10: a select called while some port d was disconnected does not get past
\* its scan of the ports up to d (it registers with no port and does not
\* park), and returns d unless it returns a lower port; it returns d when no
\* lower port is ready.
C10_DisconnectedNoPark ==
  \A d \in call.disc :
    /\ rop = "select" => rpc = "scan" /\ rp <= d
    /\ SelectReturned =>
         /\ rret.p <= d
         /\ (\A j \in 1..(d - 1) : ~CanRecv(cnt[j], steals[j])) => rret.p = d
\* select was called with the first port empty and the second disconnected,
\* and has returned the second.
C10_Witness ==
  /\ SelectReturned /\ rret.p = 2
  /\ call.disc = {2} /\ call.ready = {2} /\ queue[1] = <<>>

\* The most values a sender handle sends.
SendBound == IF MaxSends > SharedSends THEN MaxSends ELSE SharedSends
\* The receiver is parked in recv_opt / in select.
Parked(op) == rop = op /\ rpc = "wait"
\* A try on port p has returned true for a value the port has not returned.
Undelivered(p) == \E v \in sentOK : v[1] = p /\ v \notin Range(received[p])
\* Every sender handle of packet p has been dropped, and the drop is over.
ProducersGone(p) == \A i \in I : spc[p][i] \in {"dead", "unborn"}

\* C1: no loss, no duplication: every value whose try returned true is
\* eventually returned by the port, and the port returns no value twice.
C1_NoLossNoDuplication ==
  /\ \A p \in P, i \in I, k \in 1..SendBound :
       (Val(p, i, k) \in sentOK) ~> (Val(p, i, k) \in Range(received[p]))
  /\ [](\A p \in P : \A m, n \in 1..Len(received[p]) :
          received[p][m] = received[p][n] => m = n)
\* Both handles of a SharedChan have sent all their values and the port has
\* returned them all.
C1_Witness ==
  /\ kind[1] = "MPSC"
  /\ Cardinality(sentOK) = MaxHandles * SharedSends
  /\ Range(received[1]) = sentOK

\* C2: no lost wake-up: a receiver parked in recv_opt while a try has returned
\* true for a value the port has not returned eventually returns a value; a
\* receiver parked in recv_opt when every sender handle has been dropped
\* eventually returns None.
C2_NoLostWakeup ==
  /\ (Parked("recv_opt") /\ Undelivered(rp))
       ~> (rpc = "idle" /\ rret.op = "recv_opt" /\ rret.val # <<>>)
  /\ (Parked("recv_opt") /\ ProducersGone(rp)) ~> RecvNone(rp)
\* The receiver is parked with the count at -1 after one handle of a
\* SharedChan has completed a send whose increment returned -2, while the
\* other handle's value, already returned, is still being sent.
C2_Witness ==
  /\ Parked("recv_opt") /\ ~awake /\ cnt[1] = -1
  /\ Undelivered(1) /\ spc[1][1] = "inc"
\* C2 as stated: a receiver parked in recv_opt returns once any try returns
\* true while it is parked.
C2_AnySendUnparks == (Parked("recv_opt") /\ call.sent) ~> (rpc = "idle")

\* C9: a select parked on its ports eventually returns when a try has
\* returned true for a value its port has not returned, or when every sender
\* handle of one of the ports has been dropped; and the assertion after the
\* tear-down, ready_index < ports.len(), never fails.
C9_SelectWakes ==
  /\ (Parked("select") /\ \E p \in 1..np : Undelivered(p) \/ ProducersGone(p))
       ~> SelectReturned
  /\ []("select: ready_index < ports.len()" \notin errs)
\* select has returned the second port after it parked and the sender of
\* that port completed a send.
C9_Witness ==
  /\ SelectReturned /\ rret.p = 2 /\ call.sent
  /\ Undelivered(2) /\ ~Undelivered(1)
\* C9 as stated: a parked select returns once any try on one of its ports
\* returns true while it is parked.
C9_AnySendUnparks == (Parked("select") /\ call.sent) ~> SelectReturned

\* The receiver's step is a try_recv on the port the select before it returned.
TryRecvAfterSelect ==
  SelectReturned /\ rret'.op = "try_recv" /\ rret'.p = rret.p

\* C11: select does not consume data.  Once select has returned i, and
\* until the receiver's next operation (a receive, or the drop of one of the
\* ports), can_recv holds of port i, and it
\* holds of no port below i whose senders have taken no step since the select
\* was called, so that the scan of a repeated select stops at i again; and a
\* try_recv on port i, when it is the port of a Chan that is not
\* disconnected, returns a value.
C11_SelectKeepsData ==
  /\ [](SelectReturned /\ (\A q \in 1..np : portAlive[q]) =>
          /\ CanRecv(cnt[rret.p], steals[rret.p])
          /\ \A j \in 1..(rret.p - 1) :
               j \notin call.stepped => ~CanRecv(cnt[j], steals[j]))
  /\ [][TryRecvAfterSelect /\ kind[rret.p] = "SPSC" /\ cnt[rret.p] # DISCONNECTED
          => rret'.val # <<>>]_vars
\* select has parked on both ports, was woken by the sender of port 2, tore
\* down its registration on port 1, whose sender has not moved, and returned 2.
C11_Witness ==
  /\ SelectReturned /\ rret.p = 2 /\ call.sent
  /\ call.stepped = {2} /\ call.ready = {}
  /\ spc[2][1] = "idle" /\ queue[2] # <<>>
\* C11 as stated, for the port of either sender kind: a try_recv on the port
\* select returned, which is not disconnected, returns a value.
C11_TryRecvReturnsValue ==
  [][TryRecvAfterSelect /\ cnt[rret.p] # DISCONNECTED => rret'.val # <<>>]_vars

\* C12: a recv_opt called on the port the select right before it returned
\* does not park and does not fail.
C12_RecvAfterSelectNoPark ==
  call.after => rpc # "wait" /\ rpc # "failed"

\* C13: at the step at which select returns, the to_wake slot of every port
\* is empty and every cnt is non-negative or DISCONNECTED.
C13_SelectLeavesSlotsEmpty ==
  [][rret'.op = "select" /\ rret.op # "select" =>
       \A q \in 1..np : /\ to_wake'[q] = "None"
                        /\ (cnt'[q] >= 0 \/ cnt'[q] = DISCONNECTED)]_vars

\* The values of packet p among a set of values.
Of(p, vs) == {v \in vs : v[1] = p}

\* C14: a try on a Chan that starts after the port was dropped returns false.
C14_ChanTryAfterPortGone ==
  \A p \in P : kind[p] = "SPSC" => Of(p, late) \cap sentOK = {}
\* The Chan's first try returned false, so the port was dropped before it
\* ended, and the second try, which started after that, has returned false.
C14_Witness ==
  /\ kind[1] = "SPSC" /\ ~portAlive[1]
  /\ sentFail = {Val(1, 1, 1), Val(1, 1, 2)} /\ spc[1][1] = "idle"
  /\ late = {Val(1, 1, 2)}

\* No sender handle of packet p is in the middle of a try or of its drop.
SendersAtRest(p) == \A i \in I : spc[p][i] \in {"idle", "dead", "unborn"}

C16_ChanFalseNeverReceived ==
  \A p \in P : kind[p] = "SPSC" => Of(p, sentFail) \cap Range(received[p]) = {}
\* The port was dropped during the Chan's second try, after it had returned
\* the first value; the second try returned false.
C16_Witness ==
  /\ kind[1] = "SPSC" /\ late = {}
  /\ sentFail = {Val(1, 1, 2)} /\ received[1] = <<Val(1, 1, 1)>>

\* C17: a value for which try on a SharedChan returned false has not been,
\* and is never, returned by the port.
C17_SharedFalseNeverReceived ==
  \A p \in P : kind[p] = "MPSC" => Of(p, sentFail) \cap Range(received[p]) = {}

\* ---------------------------------------------------------------- C18
\* C18, for one channel whose receiver does not call select: disconnect
\* becomes a task failure exactly in the failing variants: a
\* sender handle has failed iff it calls send / send_deferred and one of its
\* tries returned false, the receiver has failed iff it calls recv and its
\* recv_opt returned None, and no other failure occurs: try_send, try_recv and
\* recv_opt do not fail on a disconnected channel.
EscalationLabels == {"sending on a closed channel", "receiving on a closed channel"}
C18_EscalationWithoutSelect ==
  /\ \A p \in P, i \in I :
       spc[p][i] = "failed" <=>
         <<p, i>> \in esc.send /\ \E k \in 1..nsent[p][i] : Val(p, i, k) \in sentFail
  /\ rpc = "failed" <=> esc.recv /\ RecvNone(rp)
  /\ errs \subseteq EscalationLabels
  /\ ("sending on a closed channel" \in errs) = (\E p \in P, i \in I : spc[p][i] = "failed")
  /\ ("receiving on a closed channel" \in errs) = (rpc = "failed")
\* A clone's try_send has returned false and the clone goes on, while the send
\* of the other handle has failed its task.
C18_Witness ==
  /\ kind[1] = "MPSC" /\ esc.send = {<<1, 1>>}
  /\ spc[1][1] = "failed" /\ spc[1][2] = "idle"
  /\ Val(1, 2, 1) \in sentFail
\* The receiver's recv has failed on a channel whose last sender is gone.
C18_RecvFailed == rpc = "failed" /\ spc[1][1] = "dead" /\ received[1] # <<>>
TryStep(p, i) ==
  \/ SendLink(p, i)
  \/ SendIncrement(p, i)
  \/ SendStore(p, i)
  \/ SendIsEmpty(p, i)
  \/ SendTake(p, i)
  \/ SendWake(p, i)
\* Handle i of packet p is inside try: it has pushed and has not returned.
InTry(p, i) == spc[p][i] \in {"link", "inc", "store", "isempty", "take", "wake"}
\* The senders send and clone and the receiver calls recv_opt and select and
\* drops ports; no sender handle is dropped, so a receiver that has been woken
\* finds a value and a port the receiver is working on is never disconnected
\* (RCheck, RDecStore and RAbortStore have nothing to do).
TrySender(p, i) == SendPush(p, i) \/ TryStep(p, i)
SendNext ==
  \/ \E p \in P, i \in I : TrySender(p, i)
  \/ \E p \in P, i \in I, j \in I : Clone(p, i, j)
  \/ \E p \in P : RecvOpt(p) \/ PortDrop(p)
  \/ RInstall
  \/ RDecrement
  \/ RUnregister
  \/ RWait
  \/ RRepop
  \/ RSpin
  \/ RSelect
  \/ RScan
  \/ RAbortLoad
  \/ RAbortAdd
  \/ RAbortSlot
\* Either configuration; the scheduler is fair to a sender inside try and owes
\* nothing to anybody else: the receiver may stop anywhere (parked, in the
\* middle of select, or after dropping the port), no receive has to be called
\* and no other sender has to start anything.
SendFair ==
  /\ Init
  /\ [][SendNext]_vars
  /\ \A p \in P, i \in I : WF_vars(TryStep(p, i))

C19_PortGone == \E p \in P : ~portAlive[p] /\ Of(p, late) \cap sentFail # {}

\* ---------------------------------------------------------------- C20
\* C20: try_recv returns in one go, without parking and without failing.  On
\* an empty queue it returns None and leaves count, steals, the wake slot, the
\* number of channels and the queue as they were, so another try_recv does the
\* same; when it returns a value, that value is the head of the queue, steals
\* of the port has grown by exactly 1 and the count is untouched.
C20_TryRecvFrame ==
  [][\A p \in P : TryRecv(p) =>
       /\ rpc' = "idle" /\ errs' = errs
       /\ rret'.op = "try_recv" /\ rret'.p = p
       /\ cnt' = cnt /\ to_wake' = to_wake /\ channels' = channels
       /\ IF rret'.val = <<>>
          THEN steals' = steals /\ queue' = queue /\ received' = received
          ELSE /\ queue[p] # <<>>
               /\ rret'.val = <<queue[p][1].v>>
               /\ queue'[p] = Tail(queue[p])
               /\ steals' = [steals EXCEPT ![p] = steals[p] + 1]
       /\ queue[p] = <<>> => rret'.val = <<>>]_vars
\* try_recv has returned the only value of the channel: steals is 1 and the
\* count is still the 1 the sender's increment left.
C20_Witness ==
  /\ rret = [op |-> "try_recv", p |-> 1, val |-> <<Val(1, 1, 1)>>]
  /\ steals[1] = 1 /\ cnt[1] = 1 /\ queue[1] = <<>>
\* try_recv has returned None on an empty channel whose sender is gone.
C20_NoneOnDisconnected ==
  /\ rret = [op |-> "try_recv", p |-> 1, val |-> <<>>]
  /\ cnt[1] = DISCONNECTED /\ portAlive[1] /\ queue[1] = <<>> /\ steals[1] = 1

\* ---------------------------------------------------------------- C21
\* The receiver is parked on port p: blocked in recv_opt on p, or in select,
\* which registers on every port before it blocks.
ParkedOn(p) == rpc = "wait" /\ (rop = "select" \/ rp = p)
\* C21: a count of -1 means that the wake slot holds a handle and the receiver
\* is inside a blocking operation (parked, about to park, or tearing its
\* select down); and when the receiver is parked on a port
\* with its handle in the slot and no sender of the port is in the middle of
\* try or of drop, the count is -1.
C21_MinusOneHasWaiter ==
  \A p \in 1..np :
    /\ cnt[p] = -1 => to_wake[p] # "None" /\ rop \in {"recv_opt", "select"}
    /\ ParkedOn(p) /\ to_wake[p] = "Fresh" /\ SendersAtRest(p) => cnt[p] = -1
\* The receiver is parked in recv_opt with its handle in the slot and the
\* count at -1, after it has received a value.
C21_Witness ==
  /\ Parked("recv_opt") /\ rp = 1 /\ cnt[1] = -1 /\ to_wake[1] = "Fresh"
  /\ SendersAtRest(1) /\ received[1] = <<Val(1, 1, 1)>>
\* C21 as stated: the count is -1 iff the receiver is parked on the packet
\* alone and the wake slot is occupied.
C21_MinusOneIffParked ==
  \A p \in 1..np :
    cnt[p] = -1 <=> Parked("recv_opt") /\ rp = p /\ to_wake[p] # "None"

\* ---------------------------------------------------------------- C22
\* Packet p has been disconnected: its port has been dropped, or its last
\* sender handle has been dropped and has done its swap.
Disconnected(p) ==
  \/ ~portAlive[p]
  \/ channels[p] = 0 /\ \A i \in I : spc[p][i] # "dswap"
\* An increment, a decrement or an abort_selection on packet p has found
\* DISCONNECTED with its fetch_add / fetch_sub and has not stored it back yet.
Restoring(p) ==
  \/ \E i \in I : spc[p][i] = "store"
  \/ rp = p /\ rpc \in {"dec_store", "astore"}
\* C22: once a packet is disconnected its count is DISCONNECTED except
\* between the fetch_add / fetch_sub of an operation that found DISCONNECTED
\* and the store with which that operation puts DISCONNECTED back.
C22_DisconnectedRestored ==
  \A p \in 1..np : Disconnected(p) => cnt[p] = DISCONNECTED \/ Restoring(p)
\* Two tries of SharedChan clones have started after the port was dropped; one
\* has found the count the other's fetch_add left and has returned true, and
\* the count is DISCONNECTED again now that both have returned.
C22_Witness ==
  /\ kind[1] = "MPSC" /\ ~portAlive[1] /\ SendersAtRest(1)
  /\ cnt[1] = DISCONNECTED
  /\ \E v, w \in Of(1, late) : v \in sentOK /\ w \in sentFail
\* C22 as stated: no step changes a count that is DISCONNECTED.
C22_DisconnectedNeverChanges ==
  [][\A p \in 1..np : cnt[p] = DISCONNECTED => cnt'[p] = DISCONNECTED]_vars

\* ---------------------------------------------------------------- C23
\* C23: while the receiver is parked, steals is zero on the port of recv_opt
\* and on every port of select.
C23_ParkedStealsZero ==
  \A p \in 1..np : ParkedOn(p) => steals[p] = 0
\* The receiver is parked in select after it has received a value from each
\* port with try_recv or recv_opt's first pop.
C23_Witness ==
  /\ Parked("select") /\ \A p \in 1..np : steals[p] = 0
  /\ received[1] = <<Val(1, 1, 1)>> /\ received[2] = <<Val(2, 1, 1)>>

\* ---------------------------------------------------------------- C24
\* The sender handles of packet p that are inside the last drop: they have
\* taken channels from 1 to 0 and have not finished.
LastDroppers(p) == {i \in I : spc[p][i] \in {"dswap", "dtake", "dwake"}}
\* C24: channels never goes below zero and, once zero, stays zero; only the
\* handle that took it from 1 to 0 does the disconnect swap, so while a sender
\* handle is left the count is not DISCONNECTED unless the port was dropped, and
\* when the last drop is over the count is DISCONNECTED and a receiver parked
\* on the packet has been woken.  A drop that is not the last one changes
\* neither the count nor the wake slot.
C24_LastDropDisconnects ==
  /\ [](\A p \in 1..np :
          /\ channels[p] >= 0
          /\ LastDroppers(p) # {} => channels[p] = 0 /\ Cardinality(LastDroppers(p)) = 1
          /\ channels[p] > 0 /\ portAlive[p] => cnt[p] # DISCONNECTED
          /\ ProducersGone(p) => cnt[p] = DISCONNECTED \/ Restoring(p)
          /\ ProducersGone(p) /\ ParkedOn(p) => awake)
  /\ [](errs \cap {"bad number of channels left", "drop_chan: n >= 0"} = {})
  /\ [][\A p \in 1..np :
          /\ channels[p] = 0 => channels'[p] = 0
          /\ channels'[p] < channels[p] /\ channels[p] > 1 =>
                cnt'[p] = cnt[p] /\ to_wake'[p] = to_wake[p] /\ LastDroppers(p)' = {}]_vars
\* Both handles of a SharedChan have been dropped while the receiver was
\* parked in recv_opt: the first drop left the count at -1, the last one has
\* swapped in DISCONNECTED and woken the receiver.
C24_Witness ==
  /\ kind[1] = "MPSC" /\ channels[1] = 0
  /\ spc[1][1] = "dead" /\ spc[1][2] = "dead"
  /\ Parked("recv_opt") /\ awake /\ cnt[1] = DISCONNECTED /\ to_wake[1] = "None"

\* ---------------------------------------------------------------- C25
\* No operation on packet p is in progress: every sender handle is between
\* calls and so is the receiver.
Completed(p) == SendersAtRest(p) /\ rpc = "idle"
\* The number of values pushed to the queue of packet p.
PushCount(p) == Cardinality(Pushed(p))
\* C25: on a packet that is not disconnected and has no operation in
\* progress, pushed - popped = count - steals.
C25_CountMinusSteals ==
  \A p \in 1..np :
    Completed(p) /\ ~Disconnected(p) =>
      PushCount(p) - Len(received[p]) = cnt[p] - steals[p]
\* A select has been torn down and a value received since: count and steals
\* are both positive.
C25_Witness ==
  /\ Completed(1) /\ Completed(2) /\ ~Disconnected(1)
  /\ cnt[1] = 2 /\ steals[1] = 2 /\ PushCount(1) = 1 /\ Len(received[1]) = 1
\* C25 as stated: pushed - popped = count + steals.
C25_CountPlusSteals ==
  \A p \in 1..np :
    Completed(p) /\ ~Disconnected(p) =>
      PushCount(p) - Len(received[p]) = cnt[p] + steals[p]

\* ---------------------------------------------------------------- C26
\* C26: channels is the number of sender handles that exist and have not
\* started their drop; clone adds one to it and changes nothing else of the
\* packet; and the drop of a handle while another handle is alive takes one
\* off again, is over at once, and leaves the count, the wake slot and the
\* parked receiver as they were.
C26_CloneDropNoOp ==
  /\ [](\A p \in 1..np :
          channels[p] = Cardinality({i \in I : ProducerAlive(p, i)}))
  /\ [][\A p \in 1..np, i \in I, j \in I :
          /\ Clone(p, i, j) =>
                /\ channels'[p] = channels[p] + 1
                /\ cnt' = cnt /\ to_wake' = to_wake /\ awake' = awake
          /\ DropChan(p, j) /\ i # j /\ ProducerAlive(p, i) =>
                /\ channels'[p] = channels[p] - 1
                /\ spc'[p][j] = "dead"
                /\ cnt' = cnt /\ to_wake' = to_wake /\ awake' = awake]_vars
\* A clone has been made and dropped without sending while the receiver was
\* parked: the receiver is still parked, the count is -1, its handle is in the
\* slot and channels is 1 again.
C26_Witness ==
  /\ kind[1] = "MPSC" /\ spc[1][1] = "idle" /\ spc[1][2] = "dead" /\ nsent[1][2] = 0
  /\ channels[1] = 1 /\ Parked("recv_opt") /\ ~awake
  /\ cnt[1] = -1 /\ to_wake[1] = "Fresh"

\* ---------------------------------------------------------------- C27
\* One channel of either kind whose sender has made YieldStart sends that
\* nobody has received, and goes on up to YieldSends with send / try_send or
\* with the deferred variants; the receiver calls recv_opt and may drop the
\* port.
YieldInit ==
  InitPackets(1, {k \in [P -> {"SPSC", "MPSC"}] : \A p \in P : p > 1 => k[p] = "SPSC"},
              YieldSends, YieldSends,
              {[NoEsc EXCEPT !.defer = d] : d \in {{}, {<<1, 1>>}}}, YieldStart)
YieldNext ==
  \/ \E p \in P, i \in I : TrySender(p, i)
  \/ \E p \in P : RecvOpt(p) \/ PortDrop(p)
  \/ RInstall
  \/ RDecrement
  \/ RUnregister
  \/ RWait
  \/ RRepop
YieldSpec == YieldInit /\ [][YieldNext]_vars

\* C27: a try calls maybe_yield only with can_resched true and a previous
\* count that is non-negative and a multiple of RESCHED_FREQ; a handle that
\* uses the deferred variants never yields and wakes only with wake(false).
C27_YieldOnlyOnStride ==
  /\ [][\A p \in P, i \in I :
          sched'[p][i] = "yield" /\ sched[p][i] # "yield" =>
            CanResched(p, i) /\ cnt[p] >= 0 /\ cnt[p] % RESCHED_FREQ = 0]_vars
  /\ [](\A p \in P, i \in I :
          <<p, i>> \in esc.defer => sched[p][i] \in {"none", "wake_enqueue"})
\* The send that found a count of RESCHED_FREQ has yielded.
C27_Witness == sched[1][1] = "yield" /\ cnt[1] = RESCHED_FREQ + 1
\* A deferred send has woken the parked receiver with wake(false).
C27_DeferredWake == <<1, 1>> \in esc.defer /\ sched[1][1] = "wake_enqueue"

\* ---------------------------------------------------------------- C28
\* C28: a sender whose increment returned -1, and the last dropper whose swap
\* returned -1, finds a handle in the wake slot: from the fetch_add / swap
\* until its take_unwrap the slot stays occupied, and no take_unwrap of a
\* sender fails.
C28_TakerFindsHandle ==
  \A p \in 1..np, i \in I :
    /\ spc[p][i] \in {"take", "dtake"} => to_wake[p] # "None"
    /\ spc[p][i] = "failed" => "take_unwrap on None" \notin errs
\* The sender of the first port has found -1 while select, woken through the
\* second port, is between the load and the add of abort_selection on the
\* first port.
C28_Witness ==
  /\ spc[1][1] = "take" /\ to_wake[1] # "None"
  /\ rop = "select" /\ rpc = "aadd" /\ rp = 1 /\ rtake /\ surplus = 1
\* The last dropper has swapped out -1 while the receiver is in the decrement
\* of recv_opt's blocking context.
C28_DropperTakes ==
  \E p \in 1..np, i \in I : spc[p][i] = "dtake" /\ rop = "recv_opt" /\ to_wake[p] = "Fresh"

\* ---------------------------------------------------------------- C29
\* C29: when recv_opt comes out of its blocking context and the count is not
\* DISCONNECTED, the queue is not empty: the pop of a Chan's port finds data
\* at once, the pop of a SharedChan's port finds data or an inconsistent
\* queue, and the inconsistent queue is not empty when the push is over.
\* Neither "bug: woke up too soon" nor "inconsistent => empty" fires.
C29_NeverWokenTooSoon ==
  /\ errs \cap {"bug: woke up too soon", "inconsistent => empty"} = {}
  /\ rpc = "repop" /\ cnt[rp] # DISCONNECTED =>
        /\ RepopKind(rp) # "Empty"
        /\ kind[rp] = "SPSC" => RepopKind(rp) = "Data"
  /\ rpc = "spin" => queue[rp] # <<>>
  /\ rpc = "check" => cnt[rp] = DISCONNECTED
\* The receiver has been woken by one clone while the push of the other is
\* half done: it spins on an inconsistent queue.
C29_Witness ==
  /\ rpc = "spin" /\ kind[rp] = "MPSC" /\ cnt[rp] # DISCONNECTED
  /\ PopKind(queue[rp]) = "Inconsistent" /\ Len(queue[rp]) = 2

\* ---------------------------------------------------------------- C30
\* The receiver is not registered on port p: it has not decremented the count
\* of p in a blocking operation that is still in progress, or it has undone
\* or finished that.
Unregistered(p) ==
  \/ rpc \in {"idle", "scan", "repop", "spin", "check"}
  \/ rop = "recv_opt" /\ (rpc \in {"install", "dec"} \/ (rpc # "failed" /\ p # rp))
  \/ rop = "select" /\ rpc \in {"install", "dec"} /\ p >= rp
  \/ rop = "select" /\ rpc \in {"unreg", "dec_store", "aload", "aadd", "astore", "aslot"}
       /\ p > rp
\* C30: decrement's assert!(n >= 0) does not fail, and the count of a port
\* the receiver is not registered on is non-negative or DISCONNECTED; so is
\* the count decrement is about to read.
C30_DecrementReadsNonNegative ==
  /\ "decrement: n >= 0" \notin errs
  /\ \A p \in 1..np :
       portAlive[p] /\ Unregistered(p) => cnt[p] >= 0 \/ cnt[p] = DISCONNECTED
\* recv_opt is about to decrement a count that abort_selection has raised to
\* 2 with 2 steals.
C30_Witness ==
  /\ rop = "recv_opt" /\ rpc = "dec" /\ cnt[rp] = 2 /\ steals[rp] = 2

\* ---------------------------------------------------------------- C31
\* decrement has returned true: recv_opt's task blocks, select goes on to the
\* next port or blocks.
DecrementTrue == rpc' \in {"wait", "install"}
\* C31: decrement's fetch_sub takes 1 + steals from the count (without
\* wrapping) and resets steals; on a count that is not DISCONNECTED it returns
\* true iff the count it leaves is negative, that is iff the previous count
\* less the steals is <= 0, and when it returns false the queue holds a
\* value; on DISCONNECTED it stores DISCONNECTED back and returns false.
C31_DecrementStep ==
  [][/\ rpc = "dec" /\ rpc' # "dec" =>
          /\ rpc' # "failed"
          /\ steals'[rp] = 0
          /\ IF cnt[rp] = DISCONNECTED
             THEN rpc' = "dec_store"
             ELSE /\ cnt'[rp] = cnt[rp] - (1 + steals[rp])
                  /\ DecrementTrue <=> cnt'[rp] < 0
                  /\ DecrementTrue <=> cnt[rp] - steals[rp] <= 0
                  /\ rpc' = "unreg" => PopKind(queue[rp]) # "Empty"
     /\ rpc = "dec_store" /\ rpc' # "dec_store" =>
          cnt'[rp] = DISCONNECTED /\ rpc' = "unreg" /\ steals'[rp] = 0]_vars
\* decrement has left a count of 0 with a value in the queue and has returned
\* false.
C31_Witness ==
  /\ rpc = "unreg" /\ rop = "recv_opt" /\ cnt[rp] = 0 /\ steals[rp] = 0
  /\ Len(queue[rp]) = 1 /\ nsent[rp][1] = 1 /\ spc[rp][1] = "idle"
\* C31 as stated: decrement returns true iff the count less the steals,
\* taken after the subtraction, is <= 0.
C31_TrueIffNewCountAtMostZero ==
  [][rpc = "dec" /\ rpc' # "dec" /\ cnt[rp] # DISCONNECTED =>
       (DecrementTrue <=> cnt'[rp] - steals'[rp] <= 0)]_vars

\* ---------------------------------------------------------------- C32
\* The labels of the assertions of abort_selection.
AbortLabels ==
  {"abort_selection: cur >= 0", "abort_selection: to_wake.is_none()",
   "abort_selection: steals == 0", "take_unwrap on None"}
\* The queue of port rp holds a completely pushed value after this step.
AbortLeavesData == \E k \in DOMAIN queue'[rp] : queue'[rp][k].linked
\* This step is the return of abort_selection on port rp.
AbortDone ==
  /\ rpc \in {"aadd", "astore", "aslot"}
  /\ rpc' \notin {"aadd", "astore", "aslot", "failed"}
\* The result of an abort_selection(true) that returns in this step, as
\* select's reverse loop records it: ready_index = i iff it is true.
AbortResult == ready' = rp
\* C32: abort_selection returns true iff the count its fetch_add replaced was
\* non-negative or DISCONNECTED; true with a non-negative prior count means
\* the queue holds a value; with a prior count <= -1 that is not
\* DISCONNECTED it returns false and leaves the wake slot empty: taken by the
\* receiver (take_to_wake true) or found empty (take_to_wake false), and none
\* of its assertions fails.
C32_AbortResult ==
  [][/\ errs' \cap AbortLabels = {}
     /\ rpc = "aadd" /\ rpc' # "aadd" =>
          /\ rpc' = "astore" <=> cnt[rp] = DISCONNECTED
          /\ rpc' = "aslot" <=> cnt[rp] <= -1 /\ cnt[rp] # DISCONNECTED
          /\ AbortDone => /\ cnt[rp] >= 0
                          /\ AbortLeavesData
                          /\ rtake => AbortResult
     /\ rpc = "astore" /\ AbortDone =>
          /\ cnt'[rp] = DISCONNECTED
          /\ rtake => AbortResult
     /\ rpc = "aslot" /\ AbortDone =>
          /\ to_wake'[rp] = "None"
          /\ rtake => to_wake[rp] # "None" /\ ~AbortResult
          /\ ~rtake => to_wake[rp] = "None"]_vars
\* select has returned port 1 because abort_selection(true) found it
\* disconnected: the port holds no value.
C32_Witness ==
  /\ SelectReturned /\ rret.p = 1 /\ call.disc = {}
  /\ cnt[1] = DISCONNECTED /\ to_wake[1] # "None" /\ queue[1] = <<>>
\* C32 as stated: abort_selection returns true only for a non-negative prior
\* count, and a true result means the port holds a value.
C32_TrueIffPriorNonNegative ==
  [][rtake /\ AbortDone /\ AbortResult => rpc = "aadd" /\ AbortLeavesData]_vars

\* ---------------------------------------------------------------- C33
\* The senders and droppers that hold a handle they took out of a wake slot
\* of the blocking operation in progress and have not woken yet.
Consumers == {<<p, i>> \in P \X I : shandle[p][i] = "Fresh"}
\* The steals of port p are consistent with its count: the count is
\* DISCONNECTED, or neither is negative and the count less the steals does
\* not exceed the number of values in the queue.
StealsConsistent(p) ==
  \/ cnt[p] = DISCONNECTED
  \/ /\ cnt[p] >= 0 /\ steals[p] >= 0
     /\ cnt[p] - steals[p] <= Len(queue[p])
\* C33: when a select that registered has returned, the wake slot of every
\* port (that has not been dropped since) is empty and the steals of every
\* port are consistent with its count.
C33_TearDownLeavesSlotsEmpty ==
  SelectReturned /\ call.ready = {} =>
    \A p \in 1..np : portAlive[p] => to_wake[p] = "None" /\ StealsConsistent(p)
\* C33, the part that holds: after the tear-down the steals of every port are
\* consistent with its count.
C33_TearDownStealsConsistent ==
  SelectReturned => \A p \in 1..np : portAlive[p] => StealsConsistent(p)
\* C33, the first clause: during a select at most one sender or dropper has
\* consumed a wake slot.
C33_AtMostOneConsumer ==
  rop = "select" => Cardinality(Consumers) <= 1

\* ---------------------------------------------------------------- C34
\* The count of port p, which has not been dropped, is below -1 and is not
\* DISCONNECTED or the value a fetch_add on DISCONNECTED leaves until the
\* store that follows it.
BelowMinusOne(p) ==
  /\ portAlive[p]
  /\ cnt[p] <= -2 /\ cnt[p] # DISCONNECTED
  /\ ~(rp = p /\ rpc = "astore")
\* C34: a count below -1 occurs only while the receiver is registered on the
\* packet, by recv_opt or by select, and on the packet of a Chan it is -2.
C34_BelowMinusOneOnlyRegistered ==
  \A p \in 1..np :
    BelowMinusOne(p) => /\ ~Unregistered(p)
                        /\ rop \in {"recv_opt", "select"}
                        /\ kind[p] = "SPSC" => cnt[p] = -2
\* A receiver is parked by recv_opt on the port of a Chan with a count of -2,
\* and the Chan's increment is about to read it.
C34_Witness ==
  /\ rop = "recv_opt" /\ rpc = "wait" /\ kind[rp] = "SPSC"
  /\ cnt[rp] = -2 /\ spc[rp][1] = "inc"
\* C34 as stated: a count below -1 occurs only while the receiver is in a
\* select.
C34_MinusTwoOnlyInSelect ==
  \A p \in 1..np : BelowMinusOne(p) => rop = "select"

\* ---------------------------------------------------------------- C35
\* C35: the count a Chan's increment replaces is DISCONNECTED, -2, -1 or
\* >= 0, so the assertion n >= 0 of Chan::try does not fail; when it is -2 the
\* try returns true and leaves the to_wake slots as they are.
C35_ChanIncrementReads ==
  [][\A p \in P, i \in I :
       kind[p] = "SPSC" /\ spc[p][i] = "inc" /\ spc'[p][i] # "inc" =>
         /\ cnt[p] \in {DISCONNECTED, -2, -1} \/ cnt[p] >= 0
         /\ spc'[p][i] # "failed"
         /\ "Chan::try: n >= 0" \notin errs'
         /\ cnt[p] = -2 => /\ spc'[p][i] = "idle"
                           /\ CurVal(p, i) \in sentOK'
                           /\ to_wake' = to_wake
                           /\ shandle' = shandle]_vars
\* The receiver is parked by recv_opt with a count of -1 and its handle in
\* the slot after the Chan's only try has returned true: the increment read
\* -2.
C35_Witness ==
  /\ rop = "recv_opt" /\ rpc = "wait" /\ kind[rp] = "SPSC" /\ ~awake
  /\ cnt[rp] = -1 /\ to_wake[rp] = "Fresh" /\ queue[rp] = <<>>
  /\ spc[rp][1] = "idle" /\ nsent[rp][1] = 1 /\ Val(rp, 1, 1) \in sentOK

\* ---------------------------------------------------------------- C36
\* C36: the count the last handle's drop swaps out is -1, DISCONNECTED or
\* >= 0, and no increment, decrement or abort_selection is between its fetch
\* and its store at that moment; the assertion n >= 0 of drop_chan does not
\* fail; when the receiver is parked on the packet and has not been woken the
\* count swapped out is -1 and the drop goes on to take the receiver's handle
\* and wake it.
C36_LastDropSwapReads ==
  [][\A p \in P, i \in I :
       spc[p][i] = "dswap" /\ spc'[p][i] # "dswap" =>
         /\ cnt[p] = -1 \/ cnt[p] = DISCONNECTED \/ cnt[p] >= 0
         /\ ~Restoring(p)
         /\ spc'[p][i] # "failed"
         /\ "drop_chan: n >= 0" \notin errs'
         /\ ParkedOn(p) /\ ~awake =>
              cnt[p] = -1 /\ to_wake[p] = "Fresh" /\ spc'[p][i] = "dtake"]_vars
\* The receiver is parked in a select on two ports and the drop of the Chan
\* of port 2 has swapped -1 out and is about to take the handle.
C36_Witness ==
  /\ rop = "select" /\ rpc = "wait" /\ ~awake /\ np = 2
  /\ spc[2][1] = "dtake" /\ cnt[2] = DISCONNECTED /\ to_wake[2] = "Fresh"

\* ---------------------------------------------------------------- C37
\* Port p is connected and no try on it is between its push and its
\* increment.
Settled(p) ==
  /\ portAlive[p] /\ cnt[p] # DISCONNECTED
  /\ \A i \in I : spc[p][i] \notin {"link", "inc"}
\* The receiver is between a decrement on port p and the pop (recv_opt) or
\* the end of the abort_selection (select) that follows it.
Registered(p) == ~Unregistered(p) \/ (rp = p /\ rpc \in {"repop", "spin", "check"})
\* C37: on a settled port the receiver is not registered on, count - steals
\* is the number of values in the queue; while a select is parked count + 1
\* is that number, so that the tear-down restores count - steals; and when
\* can_recv may be called and count - steals > 0 the queue holds a completely
\* pushed value.
C37_CounterQueueCoherence ==
  \A p \in 1..np :
    /\ Settled(p) /\ ~Registered(p) => cnt[p] - steals[p] = Len(queue[p])
    /\ Settled(p) /\ rop = "select" /\ rpc = "wait" =>
         cnt[p] + 1 = Len(queue[p]) /\ steals[p] = 0
    /\ portAlive[p] /\ cnt[p] # DISCONNECTED /\ rpc \in {"idle", "scan"}
         /\ CanRecv(cnt[p], steals[p]) => HoldsData(p)
\* A select that parked on two ports has returned port 2; port 1 was
\* registered with a count of -2 and has its steal back, port 2 holds the
\* value that woke the select.
C37_Witness ==
  /\ SelectReturned /\ rret.p = 2 /\ rpc = "idle" /\ Settled(1) /\ Settled(2)
  /\ steals[1] = 2 /\ cnt[1] = 2 /\ queue[1] = <<>>
  /\ steals[2] = 1 /\ cnt[2] = 2 /\ Len(queue[2]) = 1
\* C37 as stated: count - steals is the number of values in the queue
\* whenever the port is settled and the receiver is not inside decrement or
\* abort_selection (the whole of a select taken as inside) and not parked.
C37_CoherentOutsideDecrement ==
  \A p \in 1..np :
    Settled(p) /\ rop # "select" /\ rpc \notin {"dec_store", "wait", "failed"}
      => cnt[p] - steals[p] = Len(queue[p])

\* ---------------------------------------------------------------- C38
\* C38: once the port is dropped and no try or drop of a sender is in
\* progress, the count is DISCONNECTED.
C38_QuiescentDisconnected ==
  \A p \in 1..np : ~portAlive[p] /\ SendersAtRest(p) => cnt[p] = DISCONNECTED
\* Both clones of a SharedChan have sent after the port was dropped, one of
\* the tries has returned true (its increment read the value another
\* increment left), and both are at rest.
C38_Witness ==
  /\ kind[1] = "MPSC" /\ ~portAlive[1] /\ SendersAtRest(1)
  /\ \A i \in I : \E v \in Of(1, late) : v[2] = i
  /\ Of(1, late) \cap sentOK # {}
  /\ cnt[1] = DISCONNECTED

\* ---------------------------------------------------------------- C39
\* Packet p is destroyed: the port and every sender handle are gone.
Destroyed(p) == ~portAlive[p] /\ ProducersGone(p)
\* C39: the to_wake slot is empty on every entry to block (its assertion
\* slot.is_none() does not fail), after block has returned false, when
\* recv_opt has returned, and when the packet is destroyed.
C39_SlotEmptyOutsideRegistration ==
  /\ "block: slot.is_none()" \notin errs
  /\ rpc = "install" => to_wake[rp] = "None"
  /\ rop = "select" /\ rpc = "aload" /\ ~rtake => to_wake[rp] = "None"
  /\ rop = "recv_opt" /\ rpc \in {"repop", "spin", "check"} => to_wake[rp] = "None"
  /\ rret.op = "recv_opt" /\ portAlive[rret.p] => to_wake[rret.p] = "None"
  /\ \A p \in 1..np : Destroyed(p) => to_wake[p] = "None"
\* C39, the part that select does not break: the slot is empty after block
\* has returned false and when the packet is destroyed.
C39_SlotEmptyAfterReset ==
  /\ rop = "select" /\ rpc = "aload" /\ ~rtake => to_wake[rp] = "None"
  /\ rop = "recv_opt" /\ rpc \in {"repop", "spin", "check"} => to_wake[rp] = "None"
  /\ \A p \in 1..np : Destroyed(p) => to_wake[p] = "None"

======================================================================
